---- MODULE Spec2Model ----
(***************************************************************************)
(* pyhottop: the Hottop facade (class Hottop) and its control thread       *)
(* (class ControlProcess), src/pyhottop/pyhottop.py.                       *)
(*                                                                         *)
(* The module targets the Python 2 branch of the file (Queue is only bound *)
(* when py2 is true, line 13-18; serial reads return str, so buffer[i] is  *)
(* a one-character string and hex2int works on it).                        *)
(*                                                                         *)
(* The caller's thread runs the methods of Hottop; Hottop.start() starts   *)
(* a ControlProcess thread.  The variables p_config .. err hold one        *)
(* ControlProcess object and its thread; a second call of start() creates  *)
(* a second object, kept in the variable sibling, and the two can change   *)
(* places between steps.                                                   *)
(*                                                                         *)
(* Python objects: a dict is an object on the heap (dicts), a variable or  *)
(* a queue entry holds a reference to it.  Hottop.__init__ creates one     *)
(* dict; start() hands that same object to ControlProcess and every setter *)
(* puts that same object on the queue.                                     *)
(***************************************************************************)
EXTENDS Integers, Sequences, FiniteSets, TLC

VARIABLES
    dicts,        \* heap of dict objects: reference -> contents
    h_config,     \* Hottop._config (a reference)
    p_config,     \* ControlProcess._config (a reference), "None" before start()
    q,            \* Hottop._q / ControlProcess._q: sequence of references
    roast,        \* Hottop._roast
    roasting,     \* Hottop._roasting
    roast_start,  \* Hottop._roast_start: "None" or "set"
    roast_end,    \* Hottop._roast_end: "None" or "set"
    caller_pc,    \* where the caller's thread is inside a Hottop method
    raised,       \* exception raised by the caller's last Hottop call, or "None"
    pc,           \* where the ControlProcess thread is
    wake_i,       \* index of the for loop of _wake_up
    retry_count,  \* ControlProcess._retry_count
    reads,        \* transport reads done by the current call chain of _read_settings
    settings,     \* local variable settings of run()
    overlaid,     \* the current cycle executed the body of `if self.cooldown.is_set()`
    cooldown,     \* ControlProcess.cooldown (Event)
    exit,         \* ControlProcess.exit (Event)
    written,      \* the frame the last step handed to conn.write, else <<>>
    rx,           \* the buffer the last step got from conn.read, else <<>>
    evt,          \* what the last step did: "write", "write_failed", "read",
                  \* "callback", or "none"
    err,          \* exception that ended the ControlProcess thread, or "None"
    sibling       \* the second ControlProcess object and its thread, if start()
                  \* has been called twice: see NoThread and locals

vars == <<dicts, h_config, p_config, q, roast, roasting, roast_start, roast_end,
          caller_pc, raised, pc, wake_i, retry_count, reads, settings, overlaid,
          cooldown, exit, written, rx, evt, err, sibling>>

facade_vars == <<roasting, roast_start, roast_end>>

(***************************************************************************)
(* Bounds of the model.                                                    *)
(***************************************************************************)
\* Entries the queue may hold (Queue() is unbounded): the caller calls no
\* setter that would push while the queue holds that many.
MaxQueue == 2
\* Readings the roast history may hold (the list is unbounded); the
\* transport stops delivering valid frames once it is reached.
MaxRoast == 2
\* Stack frames of _read_settings the interpreter allows before it raises
\* "maximum recursion depth exceeded" (sys.getrecursionlimit() in CPython).
RecursionLimit == 5

(***************************************************************************)
(* Python values passed by the caller: a type tag and a numeric value      *)
(* (True is 1, False is 0; a str has no numeric value, v is unused).       *)
(***************************************************************************)
PyInt(n) == [t |-> "int", v |-> n]
PyBool(b) == [t |-> "bool", v |-> IF b THEN 1 ELSE 0]
PyStr == [t |-> "str", v |-> 0]
\* A float, v in tenths (0.5 is PyFloat(5)).
PyFloat(tenths) == [t |-> "float", v |-> tenths]

\* `x in range(lo, hi)`: membership compares with ==, a str equals no int.
in_range(x, lo, hi) == x.t \in {"int", "bool"} /\ lo <= x.v /\ x.v < hi

\* A variant of bool2int with its branches exchanged.
bool2int_exchanged(b) == IF b.v # 0 THEN 0 ELSE 1

\* bool2int: 1 when the argument is truthy, else 0.
bool2int(b) == IF b.v # 0 THEN 1 ELSE 0

\* The only dict object, created by Hottop.__init__ (self._config = dict()).
D0 == "d0"

\* Hottop.INTERVAL = 0.5
INTERVAL == PyFloat(5)

\* _init_controls (the channels that are sent on the wire, and the polling
\* interval).
init_controls ==
    [heater |-> 0, fan |-> 0, main_fan |-> 0, drum_motor |-> 0,
     solenoid |-> 0, cooling_motor |-> 0, interval |-> INTERVAL]

\* The channels _generate_config reads from the dict.
Channels == {"heater", "fan", "main_fan", "solenoid", "drum_motor", "cooling_motor"}

\* dict.get(key, default)
get(d, key, default) == IF key \in DOMAIN d THEN d[key] ELSE default

(***************************************************************************)
(* Frames.  A frame is a sequence of byte values; offset k of the source   *)
(* is index k + 1 here.                                                    *)
(***************************************************************************)
FrameLen == 36

RECURSIVE SumTo(_, _)
\* sum of the first n elements of s (sum(... buffer[:n]) for n <= Len(s))
SumTo(s, n) == IF n = 0 THEN 0 ELSE s[n] + SumTo(s, n - 1)

\* bytearray item assignment raises ValueError outside range(0, 256).
encodable(cfg) ==
    \A k \in Channels : get(cfg, k, 0) \in 0..255

\* A variant of _generate_config that stores the sum without `& 0xFF`.
generate_config_unmasked(cfg) ==
    LET config == [i \in 1..FrameLen |->
                     CASE i = 1 -> 165 [] i = 2 -> 150 [] i = 3 -> 176 [] i = 4 -> 160
                       [] i = 5 -> 1 [] i = 6 -> 1 [] i = 7 -> 36
                       [] i = 11 -> get(cfg, "heater", 0)
                       [] i = 12 -> get(cfg, "fan", 0)
                       [] i = 13 -> get(cfg, "main_fan", 0)
                       [] i = 17 -> get(cfg, "solenoid", 0)
                       [] i = 18 -> get(cfg, "drum_motor", 0)
                       [] i = 19 -> get(cfg, "cooling_motor", 0)
                       [] OTHER -> 0]
    IN  [config EXCEPT ![FrameLen] = SumTo(config, FrameLen - 1)]

\* _generate_config, for a configuration bytearray accepts.
generate_config(cfg) ==
    LET config == [i \in 1..FrameLen |->
                     CASE i = 1 -> 165      \* 0xA5
                       [] i = 2 -> 150      \* 0x96
                       [] i = 3 -> 176      \* 0xB0
                       [] i = 4 -> 160      \* 0xA0
                       [] i = 5 -> 1
                       [] i = 6 -> 1
                       [] i = 7 -> 36       \* 0x24
                       [] i = 11 -> get(cfg, "heater", 0)
                       [] i = 12 -> get(cfg, "fan", 0)
                       [] i = 13 -> get(cfg, "main_fan", 0)
                       [] i = 17 -> get(cfg, "solenoid", 0)
                       [] i = 18 -> get(cfg, "drum_motor", 0)
                       [] i = 19 -> get(cfg, "cooling_motor", 0)
                       [] OTHER -> 0]
    IN  [config EXCEPT ![FrameLen] = SumTo(config, FrameLen - 1) % 256]

\* A variant of _validate_checksum that compares the checksum only.
validate_checksum_sum_only(buffer) ==
    IF Len(buffer) = 0 THEN "False"
    ELSE IF Len(buffer) < FrameLen THEN "IndexError"
    ELSE IF buffer[FrameLen] # SumTo(buffer, FrameLen - 1) % 256 THEN "False" ELSE "True"

\* _validate_checksum: "True", "False", or the IndexError that buffer[1] /
\* buffer[35] raise on a buffer of 1..35 bytes.
validate_checksum(buffer) ==
    IF Len(buffer) = 0 THEN "False"
    ELSE IF Len(buffer) < FrameLen THEN "IndexError"
    ELSE LET p0 == buffer[1]
             p1 == buffer[2]
             checksum == SumTo(buffer, FrameLen - 1) % 256
             p35 == buffer[FrameLen]
         IN  IF p0 # 165 \/ p1 # 150 \/ p35 # checksum THEN "False" ELSE "True"

\* celsius2fahrenheit, in tenths of a degree: (c * 1.8) + 32.
celsius2fahrenheit(c) == c * 18 + 320

\* A variant of the parsing that takes heater and fan from each other's offset.
parse_settings_exchanged(buffer) ==
    [heater |-> buffer[12], fan |-> buffer[11], main_fan |-> buffer[13],
     external_temp |-> celsius2fahrenheit(buffer[24] * 256 + buffer[25]),
     bean_temp |-> celsius2fahrenheit(buffer[26] * 256 + buffer[27]),
     solenoid |-> buffer[17], drum_motor |-> buffer[18],
     cooling_motor |-> buffer[19], chaff_tray |-> buffer[20]]

\* The dict _read_settings builds from a buffer of 36 bytes (lines 177-188).
parse_settings(buffer) ==
    [heater |-> buffer[11], fan |-> buffer[12], main_fan |-> buffer[13],
     external_temp |-> celsius2fahrenheit(buffer[24] * 256 + buffer[25]),
     bean_temp |-> celsius2fahrenheit(buffer[26] * 256 + buffer[27]),
     solenoid |-> buffer[17], drum_motor |-> buffer[18],
     cooling_motor |-> buffer[19], chaff_tray |-> buffer[20]]

(***************************************************************************)
(* What the roaster answers to conn.read(36).                              *)
(***************************************************************************)
\* A frame of the roaster: heater 50, drum on, 100 C / 90 C.
ValidFrame ==
    LET f == [i \in 1..FrameLen |->
                CASE i = 1 -> 165 [] i = 2 -> 150 [] i = 11 -> 50 [] i = 18 -> 1
                  [] i = 25 -> 100 [] i = 27 -> 90 [] OTHER -> 0]
    IN  [f EXCEPT ![FrameLen] = SumTo(f, FrameLen - 1) % 256]
\* The same frame with byte 0 damaged and the checksum recomputed.
BadHeaderFrame ==
    LET f == [ValidFrame EXCEPT ![1] = 0]
    IN  [f EXCEPT ![FrameLen] = SumTo(f, FrameLen - 1) % 256]
\* The same frame with a wrong checksum byte.
BadSumFrame == [ValidFrame EXCEPT ![FrameLen] = (ValidFrame[FrameLen] + 1) % 256]
\* A read that timed out after two bytes.
ShortFrame == <<165, 150>>
EmptyFrame == <<>>

AllBuffers == {EmptyFrame, ShortFrame, BadHeaderFrame, BadSumFrame, ValidFrame}

\* The answers the transport may give now: the roaster delivers at most
\* MaxRoast valid frames to a session's history.
conn_read(Buffers) ==
    {b \in Buffers : validate_checksum(b) = "True" => Len(roast) < MaxRoast}

\* Values of the local variable settings of run(): None before the first
\* cycle, False, or a dict.
PyNone == [kind |-> "None"]
PyFalse == [kind |-> "False"]
PyDict(d) == [kind |-> "dict", d |-> d]

\* The fields of a ControlProcess object and the position and locals of its
\* thread, as a record; who tells which object the record holds: the one
\* self._process refers to ("latest") or the one it referred to before
\* ("previous").
NoThread ==
    [who |-> "none", p_config |-> "None", pc |-> "unstarted", wake_i |-> 0,
     retry_count |-> 0, reads |-> 0, settings |-> PyNone, overlaid |-> FALSE,
     cooldown |-> FALSE, exit |-> FALSE, err |-> "None"]

\* self._process is the object held in the variables p_config .. err.
process_is_here == sibling.who # "latest"

Init ==
    /\ dicts = [d \in {D0} |-> init_controls]
    /\ h_config = D0
    /\ p_config = "None"
    /\ q = <<>>
    /\ roast = <<>>
    /\ roasting = FALSE
    /\ roast_start = "None"
    /\ roast_end = "None"
    /\ caller_pc = "idle"
    /\ raised = "None"
    /\ pc = "unstarted"
    /\ wake_i = 0
    /\ retry_count = 0
    /\ reads = 0
    /\ settings = PyNone
    /\ overlaid = FALSE
    /\ cooldown = FALSE
    /\ exit = FALSE
    /\ written = <<>>
    /\ rx = <<>>
    /\ evt = "none"
    /\ err = "None"
    /\ sibling = NoThread

\* A step that neither touches the transport nor calls the callback.
quiet == evt' = "none" /\ written' = <<>> /\ rx' = <<>>

(***************************************************************************)
(* The caller's thread: methods of Hottop.                                 *)
(***************************************************************************)
caller_frame == <<p_config, roast, pc, wake_i, retry_count, reads, settings,
                  overlaid, err, sibling>>

\* start(): one session; the ControlProcess gets the facade's dict itself.
start ==
    /\ caller_pc = "idle"
    /\ pc = "unstarted"
    /\ p_config' = h_config
    /\ roast_start' = "set"
    /\ pc' = "wake_send"
    /\ wake_i' = 1
    /\ roasting' = TRUE
    /\ raised' = "None"
    /\ quiet
    /\ UNCHANGED <<dicts, h_config, q, roast, roast_end, caller_pc, retry_count,
                   reads, settings, overlaid, cooldown, exit, err, sibling>>

\* The object and thread held in the variables p_config .. err, as a record.
locals(who) ==
    [who |-> who, p_config |-> p_config, pc |-> pc, wake_i |-> wake_i,
     retry_count |-> retry_count, reads |-> reads, settings |-> settings,
     overlaid |-> overlaid, cooldown |-> cooldown, exit |-> exit, err |-> err]

\* start(), called when self._process already refers to a ControlProcess:
\* a new object is created on the same dict and queue and its thread is
\* started; the object of the earlier call and its thread stay as they are.
\* (At most two objects are modelled.)
start_again ==
    /\ caller_pc = "idle"
    /\ pc # "unstarted"
    /\ sibling = NoThread
    /\ sibling' = locals("previous")
    /\ p_config' = h_config
    /\ roast_start' = "set"
    /\ pc' = "wake_send"
    /\ wake_i' = 1
    /\ retry_count' = 0
    /\ reads' = 0
    /\ settings' = PyNone
    /\ overlaid' = FALSE
    /\ cooldown' = FALSE
    /\ exit' = FALSE
    /\ err' = "None"
    /\ roasting' = TRUE
    /\ raised' = "None"
    /\ quiet
    /\ UNCHANGED <<dicts, h_config, q, roast, roast_end, caller_pc>>

\* The check of set_heater / set_fan / set_main_fan:
\* `type(x) != int and x not in range(0, hi)`.
rejects_number(x, hi) == x.t # "int" /\ ~in_range(x, 0, hi)

\* set_heater / set_fan / set_main_fan up to the assignment to the dict;
\* q.put follows as a step of its own (put).
set_number(channel, x, hi) ==
    /\ caller_pc = "idle"
    /\ IF rejects_number(x, hi)
       THEN /\ raised' = "InvalidInput"
            /\ UNCHANGED <<dicts, caller_pc>>
       ELSE /\ Len(q) < MaxQueue
            /\ raised' = "None"
            /\ dicts' = [dicts EXCEPT ![h_config][channel] = x.v]
            /\ caller_pc' = "put"
    /\ quiet
    /\ UNCHANGED <<h_config, q, facade_vars, cooldown, exit, caller_frame>>

set_heater(heater) == set_number("heater", heater, 101)
set_fan(fan) == set_number("fan", fan, 11)
set_main_fan(main_fan) == set_number("main_fan", main_fan, 11)

\* The check of set_drum_motor / set_solenoid / set_cooling_motor.
rejects_bool(x) == x.t # "bool"

\* set_drum_motor / set_solenoid / set_cooling_motor up to the assignment.
set_bool(channel, x) ==
    /\ caller_pc = "idle"
    /\ IF rejects_bool(x)
       THEN /\ raised' = "InvalidInput"
            /\ UNCHANGED <<dicts, caller_pc>>
       ELSE /\ Len(q) < MaxQueue
            /\ raised' = "None"
            /\ dicts' = [dicts EXCEPT ![h_config][channel] = bool2int(x)]
            /\ caller_pc' = "put"
    /\ quiet
    /\ UNCHANGED <<h_config, q, facade_vars, cooldown, exit, caller_frame>>

set_drum_motor(drum_motor) == set_bool("drum_motor", drum_motor)
set_solenoid(solenoid) == set_bool("solenoid", solenoid)
set_cooling_motor(cooling_motor) == set_bool("cooling_motor", cooling_motor)

\* The condition of set_interval, line 458.
rejects_interval(x) == x.t # "float" \/ x.t # "int"

\* set_interval: line 460 reads self._config['interval'] and stores nothing;
\* nothing is put on the queue.
set_interval(interval) ==
    /\ caller_pc = "idle"
    /\ raised' = IF rejects_interval(interval) THEN "InvalidInput" ELSE "None"
    /\ quiet
    /\ UNCHANGED <<dicts, h_config, q, facade_vars, caller_pc, cooldown, exit,
                   caller_frame>>

\* self._q.put(self._config): the last statement of every setter.
put ==
    /\ caller_pc = "put"
    /\ q' = Append(q, h_config)
    /\ caller_pc' = "idle"
    /\ quiet
    /\ UNCHANGED <<dicts, h_config, raised, facade_vars, cooldown, exit, caller_frame>>

\* drop(): self._process.drop() sets the cooldown event.  (Before start()
\* there is no self._process: the call raises AttributeError and changes
\* nothing; it is left out.)
drop ==
    /\ caller_pc = "idle"
    /\ pc # "unstarted"
    /\ process_is_here
    /\ cooldown' = TRUE
    /\ raised' = "None"
    /\ quiet
    /\ UNCHANGED <<dicts, h_config, q, facade_vars, caller_pc, exit, caller_frame>>

\* end(), first statement: self._process.shutdown() sets the exit event.
end_shutdown ==
    /\ caller_pc = "idle"
    /\ pc # "unstarted"
    /\ process_is_here
    /\ exit' = TRUE
    /\ caller_pc' = "end_stamp"
    /\ raised' = "None"
    /\ quiet
    /\ UNCHANGED <<dicts, h_config, q, facade_vars, cooldown, caller_frame>>

\* end(), the rest: _roasting = False; _roast_end = now_time().
end_stamp ==
    /\ caller_pc = "end_stamp"
    /\ roasting' = FALSE
    /\ roast_end' = "set"
    /\ caller_pc' = "idle"
    /\ quiet
    /\ UNCHANGED <<dicts, h_config, q, roast_start, raised, cooldown, exit, caller_frame>>

(***************************************************************************)
(* The ControlProcess thread: run() and what it calls.                     *)
(***************************************************************************)
loop_frame == <<h_config, q, roasting, roast_start, roast_end, caller_pc, raised,
                cooldown, exit, sibling>>

\* An exception nobody catches leaves run(): the thread is over.
thread_dies(e) == pc' = "Crashed" /\ err' = e

\* The elements `for range in (0, 10)` iterates over.
wake_range == <<0, 10>>

\* A variant of the except branch that logs the error and returns.
send_config_failed_swallowed(next) == pc' = next /\ UNCHANGED err

\* _send_config, the except branch: log the error and raise Exception(e).
send_config_failed(next) == thread_dies("Exception")

\* _send_config; next is where run() goes on when it returns.
\* _generate_config runs outside the try: its ValueError is not wrapped.
send_config(next) ==
    IF ~encodable(dicts[p_config])
    THEN /\ thread_dies("ValueError")
         /\ quiet
    ELSE \/ /\ written' = generate_config(dicts[p_config])
            /\ rx' = <<>>
            /\ evt' = "write"
            /\ pc' = next
            /\ UNCHANGED err
         \/ /\ send_config_failed(next)
            /\ evt' = "write_failed"
            /\ written' = <<>>
            /\ rx' = <<>>

\* _wake_up, loop body: self._send_config()
wake_send ==
    /\ pc = "wake_send"
    /\ send_config("wake_sleep")
    /\ UNCHANGED <<dicts, p_config, roast, wake_i, retry_count, reads, settings,
                   overlaid, loop_frame>>

\* _wake_up, loop body: time.sleep(...), then the next element or the end.
wake_sleep ==
    /\ pc = "wake_sleep"
    /\ IF wake_i < Len(wake_range)
       THEN wake_i' = wake_i + 1 /\ pc' = "wake_send"
       ELSE wake_i' = wake_i /\ pc' = "drain"
    /\ quiet
    /\ UNCHANGED <<dicts, p_config, roast, retry_count, reads, settings, overlaid,
                   err, loop_frame>>

\* run(), line 225: while not self._q.empty()
drain ==
    /\ pc = "drain"
    /\ pc' = IF q = <<>> THEN "loop_top" ELSE "drain_get"
    /\ quiet
    /\ UNCHANGED <<dicts, p_config, roast, wake_i, retry_count, reads, settings,
                   overlaid, err, loop_frame>>

\* run(), line 226: self._config = self._q.get(); Queue.get() waits while the
\* queue is empty.
drain_get ==
    /\ pc = "drain_get"
    /\ q # <<>>
    /\ p_config' = Head(q)
    /\ q' = Tail(q)
    /\ pc' = "drain"
    /\ quiet
    /\ UNCHANGED <<dicts, h_config, roast, roasting, roast_start, roast_end,
                   caller_pc, raised, cooldown, exit, wake_i, retry_count, reads,
                   settings, overlaid, err, sibling>>

\* A variant of the loop condition that asks the other event.
exit_is_set_other_event == cooldown

\* The condition of `while not self.exit.is_set()`.
exit_is_set == exit

\* run(), line 228: the top of a polling cycle.
loop_top ==
    /\ pc = "loop_top"
    /\ IF exit_is_set THEN pc' = "Stopped" ELSE pc' = "read"
    /\ reads' = 0
    /\ overlaid' = FALSE
    /\ quiet
    /\ UNCHANGED <<dicts, p_config, roast, wake_i, retry_count, settings,
                   err, loop_frame>>

\* The condition under which _read_settings calls itself (line 169); the
\* parameter retry is True in every call: line 171 is never reached, as
\* line 169 has _retry_count < 3 and line 170 asks for _retry_count > 3.
retries(check) == check # "True" /\ retry_count < 3

\* _read_settings: one conn.read(36) and what follows it without another
\* read.  reads + 1 frames of _read_settings are on the stack.  A frame that
\* returns to a calling frame of _read_settings has its result dropped, and
\* every calling frame adds 1 to _retry_count and returns False.
read_settings(buffer) ==
    /\ pc = "read"
    /\ evt' = "read"
    /\ written' = <<>>
    /\ rx' = buffer
    /\ reads' = reads + 1
    /\ LET check == validate_checksum(buffer) IN
       IF check = "IndexError"
       THEN thread_dies("IndexError") /\ UNCHANGED <<retry_count, settings>>
       ELSE IF retries(check)
       THEN IF reads + 1 < RecursionLimit
            THEN UNCHANGED <<pc, err, retry_count, settings>>
            ELSE thread_dies("RuntimeError") /\ UNCHANGED <<retry_count, settings>>
       ELSE IF Len(buffer) < FrameLen
       THEN thread_dies("IndexError") /\ UNCHANGED <<retry_count, settings>>
       ELSE /\ retry_count' = reads
            /\ settings' = IF reads = 0 THEN PyDict(parse_settings(buffer)) ELSE PyFalse
            /\ pc' = "callback"
            /\ UNCHANGED err
    /\ UNCHANGED <<dicts, p_config, roast, wake_i, overlaid, loop_frame>>

\* run(), line 230: self._cb(settings), which is Hottop._callback.
callback ==
    /\ pc = "callback"
    /\ evt' = "callback"
    /\ written' = <<>>
    /\ rx' = <<>>
    /\ IF roast_start = "None"
       THEN pc' = "cooldown" /\ UNCHANGED <<roast, err>>
       ELSE IF settings.kind # "dict"
       THEN thread_dies("TypeError") /\ UNCHANGED roast
       ELSE roast' = Append(roast, settings.d) /\ pc' = "cooldown" /\ UNCHANGED err
    /\ UNCHANGED <<dicts, p_config, wake_i, retry_count, reads, settings, overlaid,
                   loop_frame>>

\* The body of `if self.cooldown.is_set()`, lines 234-238.
override(cfg) ==
    [cfg EXCEPT !.drum_motor = 0, !.heater = 0, !.solenoid = 1,
                !.cooling_motor = 1, !.main_fan = 10]

\* run(), lines 232-238.
cooldown_check ==
    /\ pc = "cooldown"
    /\ IF cooldown
       THEN dicts' = [dicts EXCEPT ![p_config] = override(@)] /\ overlaid' = TRUE
       ELSE UNCHANGED <<dicts, overlaid>>
    /\ pc' = "send"
    /\ quiet
    /\ UNCHANGED <<p_config, roast, wake_i, retry_count, reads, settings,
                   err, loop_frame>>

\* run(), line 240: self._send_config()
send ==
    /\ pc = "send"
    /\ send_config("sleep")
    /\ UNCHANGED <<dicts, p_config, roast, wake_i, retry_count, reads, settings,
                   overlaid, loop_frame>>

\* run(), line 241: time.sleep(self._config['interval'])
sleep ==
    /\ pc = "sleep"
    /\ pc' = "loop_top"
    /\ quiet
    /\ UNCHANGED <<dicts, p_config, roast, wake_i, retry_count, reads, settings,
                   overlaid, err, loop_frame>>

\* The interpreter goes from one ControlProcess thread to the other: the two
\* objects change places, nothing of the program changes.
switch ==
    /\ sibling.who # "none"
    /\ sibling' = locals(IF sibling.who = "previous" THEN "latest" ELSE "previous")
    /\ p_config' = sibling.p_config
    /\ pc' = sibling.pc
    /\ wake_i' = sibling.wake_i
    /\ retry_count' = sibling.retry_count
    /\ reads' = sibling.reads
    /\ settings' = sibling.settings
    /\ overlaid' = sibling.overlaid
    /\ cooldown' = sibling.cooldown
    /\ exit' = sibling.exit
    /\ err' = sibling.err
    /\ quiet
    /\ UNCHANGED <<dicts, h_config, q, roast, roasting, roast_start, roast_end,
                   caller_pc, raised>>

(***************************************************************************)
(* Specifications.                                                         *)
(***************************************************************************)
Loop ==
    \/ wake_send
    \/ wake_sleep
    \/ drain
    \/ drain_get
    \/ loop_top
    \/ \E buffer \in conn_read(AllBuffers) : read_settings(buffer)
    \/ callback
    \/ cooldown_check
    \/ send
    \/ sleep

\* The calls of the caller that take no value.
Session ==
    \/ start
    \/ put
    \/ drop
    \/ end_shutdown
    \/ end_stamp

\* A roast session in which the caller sets the heater to 50 and switches
\* the drum motor on, at any time and any number of times.
Next ==
    \/ Session
    \/ set_heater(PyInt(50))
    \/ set_drum_motor(PyBool(TRUE))
    \/ Loop

Spec == Init /\ [][Next]_vars

\* The interpreter keeps running a thread that can run: the ControlProcess
\* thread takes its next step.
FairSpec == Spec /\ WF_vars(Loop)

\* Arguments the caller passes to the numeric setters.
HeaterInputs == {PyInt(-1), PyInt(0), PyInt(100), PyInt(101), PyStr}
FanInputs == {PyInt(-1), PyInt(10), PyInt(11), PyStr}
MainFanInputs == {PyInt(10), PyInt(11)}

\* A roast session in which the caller uses the numeric setters.
NextNumbers ==
    \/ Session
    \/ \E heater \in HeaterInputs : set_heater(heater)
    \/ \E fan \in FanInputs : set_fan(fan)
    \/ \E main_fan \in MainFanInputs : set_main_fan(main_fan)
    \/ Loop

SpecNumbers == Init /\ [][NextNumbers]_vars

\* Arguments the caller passes to the boolean setters.
BoolInputs == {PyBool(TRUE), PyBool(FALSE), PyInt(0), PyInt(1), PyInt(2), PyStr}

\* A roast session in which the caller uses the boolean setters.
NextBools ==
    \/ Session
    \/ \E drum_motor \in BoolInputs : set_drum_motor(drum_motor)
    \/ \E solenoid \in BoolInputs : set_solenoid(solenoid)
    \/ \E cooling_motor \in BoolInputs : set_cooling_motor(cooling_motor)
    \/ Loop

SpecBools == Init /\ [][NextBools]_vars

\* Arguments the caller passes to set_interval: 1, 1.0, 0.2 and a str.
IntervalInputs == {PyInt(1), PyFloat(10), PyFloat(2), PyStr}

\* A roast session in which the caller sets the heater to 50 and changes
\* the polling interval.
NextInterval ==
    \/ Session
    \/ set_heater(PyInt(50))
    \/ \E interval \in IntervalInputs : set_interval(interval)
    \/ Loop

SpecInterval == Init /\ [][NextInterval]_vars

\* The caller calls start() a second time, with or without end() before it,
\* and sets the heater to 50.
NextStartAgain ==
    \/ start
    \/ start_again
    \/ end_shutdown
    \/ end_stamp
    \/ set_heater(PyInt(50))
    \/ put
    \/ switch
    \/ Loop

SpecStartAgain == Init /\ [][NextStartAgain]_vars

\* A ControlProcess that has been started on the dict d0 with contents cfg
\* and is at statement at of run(), its queue empty, no call of the caller
\* in progress.
running(cfg, at) ==
    /\ dicts = [d \in {D0} |-> cfg]
    /\ h_config = D0
    /\ p_config = D0
    /\ q = <<>>
    /\ roast = <<>>
    /\ roasting = TRUE
    /\ roast_start = "set"
    /\ roast_end = "None"
    /\ caller_pc = "idle"
    /\ raised = "None"
    /\ pc = at
    /\ wake_i = IF at = "wake_send" THEN 1 ELSE Len(wake_range)
    /\ retry_count = 0
    /\ reads = 0
    /\ settings = PyNone
    /\ overlaid = FALSE
    /\ cooldown = FALSE
    /\ exit = FALSE
    /\ written = <<>>
    /\ rx = <<>>
    /\ evt = "none"
    /\ err = "None"
    /\ sibling = NoThread

\* Frames that differ from ValidFrame in the one byte at index i.
one_byte_changed(i) ==
    {[ValidFrame EXCEPT ![i] = (@ + d) % 256] : d \in {1, 128, 255}}

\* Frames with one header byte changed and the checksum recomputed.
header_changed ==
    {LET f == [ValidFrame EXCEPT ![i] = (@ + d) % 256]
     IN  [f EXCEPT ![FrameLen] = SumTo(f, FrameLen - 1) % 256] :
         i \in {1, 2}, d \in {1, 255}}

\* What conn.read(36) may return to the reads of the first polling cycle:
\* nothing, part of a frame, a frame, a frame with one byte changed.
FrameBuffers ==
    AllBuffers \cup {<<165>>, SubSeq(ValidFrame, 1, FrameLen - 1)}
               \cup header_changed
               \cup UNION {one_byte_changed(i) : i \in 1..FrameLen}

\* The reads of the first polling cycle of a session, for every buffer the
\* transport may return.
InitFrames == running(init_controls, "read")
NextFrames == \E buffer \in conn_read(FrameBuffers) : read_settings(buffer)
SpecFrames == InitFrames /\ [][NextFrames]_vars

\* Configurations a ControlProcess may be constructed with (its constructor
\* takes any dict): every channel present and in its range, or one channel
\* absent.
FullConfigs ==
    [heater : {0, 1, 100}, fan : {0, 10}, main_fan : {0, 10}, drum_motor : {0, 1},
     solenoid : {0, 1}, cooling_motor : {0, 1}, interval : {INTERVAL}]
without(cfg, key) == [k \in DOMAIN cfg \ {key} |-> cfg[k]]
EchoConfigs == FullConfigs \cup {without(cfg, k) : cfg \in FullConfigs, k \in Channels}

\* A device that answers a read with the frame the configuration encodes to.
echo == generate_config(dicts[p_config])

\* run() from its first statement to the first read, on a device that echoes.
InitEcho == \E cfg \in EchoConfigs : running(cfg, "wake_send")
NextEcho ==
    \/ wake_send
    \/ wake_sleep
    \/ drain
    \/ loop_top
    \/ read_settings(echo)
SpecEcho == InitEcho /\ [][NextEcho]_vars

(***************************************************************************)
(* Properties.                                                             *)
(***************************************************************************)
\* The steps that touch the transport or call the callback.
IO == {"write", "write_failed", "read", "callback"}

\* The configuration the facade holds.
facade_config == dicts[h_config]

\* The bytes of a written frame that the cool-down override controls:
\* offsets 17, 10, 16, 18, 12.
has_override(frame) ==
    /\ frame[18] = 0
    /\ frame[11] = 0
    /\ frame[17] = 1
    /\ frame[19] = 1
    /\ frame[13] = 10

\* C1: once drop() has been invoked, every frame the loop writes carries
\* drum_motor=0, heater=0, solenoid=1, cooling_motor=1, main_fan=10,
\* whatever setters the caller calls afterwards.  Stated for the frames the
\* claim's sources are about: the frame a polling cycle writes after it
\* found the cool-down event set and applied the override.
C1_OverrideOnEveryFrameAfterDrop ==
    (evt = "write" /\ overlaid) => has_override(written)

\* C1, all frames: also the frames of the wake-up phase and of the cycle in
\* progress when drop() is called.
C1_AllFramesAfterDrop ==
    (evt = "write" /\ cooldown) => has_override(written)

\* C5: once the loop has found the exit flag set at the top of a polling
\* cycle it does not start the cycle, and from then on it neither writes to
\* the transport, reads from it nor calls the callback.
C5_NoCycleAfterExitObserved ==
    [][/\ (pc = "loop_top" /\ exit) => pc' \in {"loop_top", "Stopped"}
       /\ pc = "Stopped" => (pc' = "Stopped" /\ evt' \notin IO)]_vars

\* C5 witness: the loop stopped on the exit flag after a polling cycle that
\* recorded a reading.
C5_Witness == pc = "Stopped" /\ exit /\ Len(roast) > 0

\* C7: no reading is appended to the roast history once the roast-end
\* timestamp has been set.
C7_NoReadingAfterRoastEnd ==
    [][roast_end = "set" => roast' = roast]_vars

\* C8: a polling cycle never issues a fourth transport read.
C8_AtMostThreeReadsPerCycle == reads <= 3

\* C9: a cycle whose read failed (_read_settings returned False) calls no
\* callback and does not end the loop.
C9_FailedReadSkipsCallback ==
    settings.kind = "False" => (evt # "callback" /\ pc # "Crashed")

\* C10: a failed transport write ends the ControlProcess thread at once, and
\* a thread that ended does no further read, write or callback.
C10_WriteFailureIsFatal ==
    [][/\ evt' = "write_failed" => pc' = "Crashed"
       /\ pc = "Crashed" => (pc' = "Crashed" /\ evt' \notin IO)]_vars

\* C10 witness: a write failed in a polling cycle, after a reading was
\* recorded, and the thread is over.
C10_Witness == pc = "Crashed" /\ err = "Exception" /\ Len(roast) > 0

\* C2: set_heater(v) with an integer v outside 0..100, and set_fan(v) and
\* set_main_fan(v) with an integer v outside 0..10, raise InvalidInput,
\* leave the configuration unchanged and push nothing; with v inside the
\* range the call stores v and pushes once.
C2_RangeEnforced ==
    [][/\ \A x \in HeaterInputs : set_heater(x) /\ x.t = "int" =>
            IF x.v \in 0..100
            THEN facade_config'.heater = x.v /\ raised' = "None" /\ caller_pc' = "put"
            ELSE raised' = "InvalidInput" /\ caller_pc' = "idle" /\ UNCHANGED <<dicts, q>>
       /\ \A x \in FanInputs : set_fan(x) /\ x.t = "int" =>
            IF x.v \in 0..10
            THEN facade_config'.fan = x.v /\ raised' = "None" /\ caller_pc' = "put"
            ELSE raised' = "InvalidInput" /\ caller_pc' = "idle" /\ UNCHANGED <<dicts, q>>
       /\ \A x \in MainFanInputs : set_main_fan(x) /\ x.t = "int" =>
            IF x.v \in 0..10
            THEN facade_config'.main_fan = x.v /\ raised' = "None" /\ caller_pc' = "put"
            ELSE raised' = "InvalidInput" /\ caller_pc' = "idle" /\ UNCHANGED <<dicts, q>>
       /\ caller_pc = "put" /\ caller_pc' = "idle" =>
            q' = Append(q, h_config) /\ UNCHANGED dicts]_vars

\* The documented range of every channel.
in_ranges(cfg) ==
    /\ cfg.heater \in 0..100
    /\ cfg.fan \in 0..10
    /\ cfg.main_fan \in 0..10
    /\ cfg.drum_motor \in 0..1
    /\ cfg.solenoid \in 0..1
    /\ cfg.cooling_motor \in 0..10

\* C4: every channel of the configuration is within its documented range in
\* every reachable state, and so is every channel byte (offsets 10, 11, 12,
\* 16, 17, 18) of every frame the loop writes.
C4_ChannelsInRange ==
    /\ \A d \in DOMAIN dicts : in_ranges(dicts[d])
    /\ evt = "write" =>
          /\ written[11] \in 0..100
          /\ written[12] \in 0..10
          /\ written[13] \in 0..10
          /\ written[17] \in 0..1
          /\ written[18] \in 0..1
          /\ written[19] \in 0..10

\* The channel a boolean setter call of the caller stores into, if the step
\* is the first step of such a call with argument x.
bool_call(channel, x) ==
    CASE channel = "drum_motor" -> set_drum_motor(x)
      [] channel = "solenoid" -> set_solenoid(x)
      [] channel = "cooling_motor" -> set_cooling_motor(x)

\* C3: set_drum_motor, set_solenoid and set_cooling_motor store 1 for True
\* and 0 for False and push once; with a value that is not a bool they raise
\* InvalidInput and change neither the configuration nor the queue.  As long
\* as drop() has not been called the three channels are 0 or 1.
C3_BoolSetters ==
    /\ [](~cooldown =>
            \A channel \in {"drum_motor", "solenoid", "cooling_motor"} :
               facade_config[channel] \in {0, 1})
    /\ [][/\ \A channel \in {"drum_motor", "solenoid", "cooling_motor"} :
             \A x \in BoolInputs : bool_call(channel, x) =>
                IF x.t = "bool"
                THEN /\ facade_config'[channel] = (IF x = PyBool(TRUE) THEN 1 ELSE 0)
                     /\ \A other \in DOMAIN facade_config \ {channel} :
                           facade_config'[other] = facade_config[other]
                     /\ raised' = "None"
                     /\ caller_pc' = "put"
                     /\ q' = q
                ELSE /\ raised' = "InvalidInput"
                     /\ caller_pc' = "idle"
                     /\ UNCHANGED <<dicts, q>>
          /\ caller_pc = "put" /\ caller_pc' = "idle" =>
                q' = Append(q, h_config) /\ UNCHANGED dicts]_vars

\* C3 witness: before any drop(), a call set_solenoid(True) has stored 1 and
\* pushed, and the following call, with a value that is no bool, was rejected.
C3_Witness ==
    /\ ~cooldown
    /\ facade_config.solenoid = 1
    /\ Len(q) = 1
    /\ caller_pc = "idle"
    /\ raised = "InvalidInput"

\* Where the thread is while it is inside `while not self.exit.is_set()`.
Polling == {"loop_top", "read", "callback", "cooldown", "send", "sleep"}

\* C6: after end() has set the exit flag of a loop that is polling, the loop
\* eventually finds the flag set at the top of a cycle and stops, whatever
\* frames (empty, malformed or valid) the transport returns to its reads.
\* Runs in which a transport write fails or a read returns part of a frame
\* are left aside.
C6_ExitFlagEventuallyObserved ==
    (exit /\ pc \in Polling) ~> (pc = "Stopped" \/ err \in {"Exception", "IndexError"})

\* C11: when the loop has ended on a failed write and end() has not been
\* called, the facade does not report the roast as active any more.
C11_FatalFailureObservable ==
    (pc = "Crashed" /\ err = "Exception" /\ ~exit) => ~roasting

\* What the frame format asks of a buffer: the two header bytes and, as its
\* last byte, the sum of the 35 bytes before it modulo 256.
well_formed(b) ==
    /\ Len(b) > 0
    /\ b[1] = 165
    /\ Len(b) >= FrameLen
    /\ b[2] = 150
    /\ b[FrameLen] = SumTo(b, FrameLen - 1) % 256

\* C12: the validation accepts the buffer a read returned exactly when the
\* buffer is not empty, starts with 0xA5 0x96 and ends with the sum of its
\* first 35 bytes modulo 256, and only an accepted buffer lets the read go on
\* to the callback; an empty buffer, a frame with a wrong header and a right
\* checksum, and a valid frame with any one byte changed are rejected and
\* read again.
C12_ValidationAcceptsExactlyWellFormed ==
    evt = "read" =>
        /\ validate_checksum(rx) = "True" <=> well_formed(rx)
        /\ pc = "callback" <=> well_formed(rx)
        /\ rx \in {EmptyFrame} \cup header_changed
                                \cup UNION {one_byte_changed(i) : i \in 1..FrameLen}
              => /\ validate_checksum(rx) = "False"
                 /\ pc = "read" \/ err = "RuntimeError"
C12_Witness ==
    /\ evt = "read"
    /\ rx = [ValidFrame EXCEPT ![FrameLen] = (@ + 255) % 256]
    /\ pc = "read"
    /\ reads = 1

\* C13: when the first read of a cycle returns the frame that the
\* configuration encodes to, and every channel of the configuration is
\* present and in its range, the frame passes the validation and the reading
\* parsed from it has the configuration's value on every channel.
C13_RoundTrip ==
    LET cfg == dicts[p_config]
    IN  (/\ evt = "read"
         /\ reads = 1
         /\ Channels \subseteq DOMAIN cfg
         /\ in_ranges(cfg)
         /\ rx = generate_config(cfg))
        => /\ validate_checksum(rx) = "True"
           /\ pc = "callback"
           /\ settings.kind = "dict"
           /\ \A k \in Channels : settings.d[k] = cfg[k]
C13_Witness ==
    /\ evt = "read"
    /\ Channels \subseteq DOMAIN dicts[p_config]
    /\ dicts[p_config].heater = 100
    /\ dicts[p_config].fan = 0
    /\ dicts[p_config].main_fan = 10
    /\ rx = generate_config(dicts[p_config])
    /\ settings.kind = "dict"
    /\ settings.d.heater = 100

\* C14: every frame handed to the transport has 36 bytes, starts with
\* A5 96 B0 A0 01 01 24, carries heater, fan, main_fan at offsets 10, 11, 12
\* and solenoid, drum_motor, cooling_motor at offsets 16, 17, 18 (0 for a
\* channel the configuration does not have), is zero at every other offset
\* below 35, and ends with the sum of its first 35 bytes modulo 256.
C14_FrameLayout ==
    LET cfg == dicts[p_config]
        at == [i \in {11, 12, 13, 17, 18, 19} |->
                 CASE i = 11 -> "heater" [] i = 12 -> "fan" [] i = 13 -> "main_fan"
                   [] i = 17 -> "solenoid" [] i = 18 -> "drum_motor"
                   [] i = 19 -> "cooling_motor"]
    IN  evt = "write" =>
            /\ Len(written) = 36
            /\ SubSeq(written, 1, 7) = <<165, 150, 176, 160, 1, 1, 36>>
            /\ \A i \in DOMAIN at :
                   written[i] = IF at[i] \in DOMAIN cfg THEN cfg[at[i]] ELSE 0
            /\ \A i \in 8..35 : i \notin DOMAIN at => written[i] = 0
            /\ written[36] = SumTo(written, 35) % 256
C14_Witness ==
    /\ evt = "write"
    /\ "heater" \notin DOMAIN dicts[p_config]
    /\ written[11] = 0
    /\ written[12] = 10
    /\ written[18] = 1

\* C15: a call of set_interval with an int or a float raises nothing and
\* leaves that value as the configuration's polling interval; a call with a
\* value of another type raises InvalidInput and changes nothing.
C15_IntervalAccepted ==
    [][\A x \in IntervalInputs :
          set_interval(x) =>
              IF x.t \in {"int", "float"}
              THEN raised' = "None" /\ facade_config'.interval = x
              ELSE raised' = "InvalidInput" /\ UNCHANGED dicts]_vars

\* C16: once the thread is past its wake-up routine, the routine has written
\* the configuration frame 10 times; no read and no callback happens before.
C16_TenWakeUpWrites ==
    /\ pc \in {"drain"} \cup Polling \cup {"Stopped"} => wake_i = 10
    /\ evt \in {"read", "callback"} => wake_i = 10

\* C17: a polling cycle goes from its top to its read only with the queue
\* empty: what the caller pushed before the cycle started has been taken
\* from the queue.
C17_CycleStartsDrained ==
    [][(pc = "loop_top" /\ pc' = "read") => q = <<>>]_vars

\* C18: the contents of the facade's configuration change only in the
\* storing step of a setter; no step of the thread changes them, and the
\* storing step of a setter does not change the configuration the thread
\* encodes its frames from.
C18_LoopWorksOnPrivateCopy ==
    [][/\ dicts'[h_config] # dicts[h_config]
            => (caller_pc = "idle" /\ caller_pc' = "put")
       /\ (caller_pc = "idle" /\ caller_pc' = "put" /\ p_config # "None")
            => dicts'[p_config] = dicts[p_config]]_vars

\* C19: a read yields a parsed reading only for a buffer that passed the
\* validation, and whatever the callback is called with is such a reading.
C19_OnlyValidatedReadings ==
    /\ (evt = "read" /\ pc = "callback" /\ settings.kind = "dict")
          => validate_checksum(rx) = "True"
    /\ evt = "callback" => settings.kind = "dict"

\* C20: a read that returns some bytes but fewer than 36 does not end the
\* thread.
C20_ShortReadIsNotFatal ==
    (evt = "read" /\ 0 < Len(rx) /\ Len(rx) < FrameLen) => pc # "Crashed"

\* Where a thread is while it is inside run().
InRun == {"wake_send", "wake_sleep", "drain", "drain_get"} \cup Polling

\* C21: whatever the caller calls, start() twice included, at most one
\* ControlProcess thread is inside run().
C21_AtMostOneLoop ==
    ~(pc \in InRun /\ sibling.pc \in InRun)

\* C22: a thread that is about to take an entry from the queue finds one:
\* it never waits in Queue.get() on an empty queue.
C22_DrainNeverWaits ==
    /\ ~(pc = "drain_get" /\ q = <<>>)
    /\ ~(sibling.pc = "drain_get" /\ q = <<>>)

====
